---- MODULE Spec2Model ----
(***************************************************************************)
(* A model of run.py: the amphipod sorting puzzle (a hallway of 11 cells,  *)
(* four rooms kept as stacks), its move generator `neighbors`, its         *)
(* estimator `heuristic` and the A* loop of `solve`.                       *)
(*                                                                         *)
(* A state is a record [hall, rooms]: hall is a function on 0..10 with     *)
(* values in {".", "A", "B", "C", "D"}, rooms a function on 0..3 whose     *)
(* values are sequences, bottom unit first (run.py's tuples, 0-based in    *)
(* the hallway and in the room index as in the source).                    *)
(***************************************************************************)
EXTENDS Integers, Sequences, FiniteSets, TLC

VARIABLES depth, start, gbest, heap, result, pc, cur, acc

vars == <<depth, start, gbest, heap, result, pc, cur, acc>>

---------------------------------------------------------------------------
(* Constants of run.py *)

HALL_LEN == 11

COSTS == [A |-> 1, B |-> 10, C |-> 100, D |-> 1000]

ROOM_POS == [r \in 0..3 |-> <<2, 4, 6, 8>>[r + 1]]

FORBIDDEN_STOPS == {ROOM_POS[r] : r \in 0..3}

TARGET == [r \in 0..3 |-> <<"A", "B", "C", "D">>[r + 1]]

TYPE_TO_ROOM == [A |-> 0, B |-> 1, C |-> 2, D |-> 3]

Species == {"A", "B", "C", "D"}

Abs(x) == IF x < 0 THEN -x ELSE x

RECURSIVE Sum(_, _, _)
Sum(F(_), lo, hi) == IF lo > hi THEN 0 ELSE F(lo) + Sum(F, lo + 1, hi)

---------------------------------------------------------------------------
(* Helpers *)

is_room_complete(room, ridx, d) ==
    /\ Len(room) = d
    /\ \A i \in 1..Len(room) : room[i] = TARGET[ridx]

is_room_ready(room, ridx) ==
    \A i \in 1..Len(room) : room[i] = TARGET[ridx]

\* the cells after i up to and including j are empty
hallway_path_clear(hall, i, j) ==
    \/ i = j
    \/ /\ j > i
       /\ \A k \in (i + 1)..j : hall[k] = "."
    \/ /\ j < i
       /\ \A k \in j..(i - 1) : hall[k] = "."

\* HallTerm with two steps into the room instead of at least one
HallTerm_deep(hall, pos) ==
    IF hall[pos] = "." THEN 0
    ELSE (Abs(pos - ROOM_POS[TYPE_TO_ROOM[hall[pos]]]) + 2) * COSTS[hall[pos]]

\* a unit in the hallway: the distance to its doorway and one step in
HallTerm(hall, pos) ==
    IF hall[pos] = "." THEN 0
    ELSE (Abs(pos - ROOM_POS[TYPE_TO_ROOM[hall[pos]]]) + 1) * COSTS[hall[pos]]

\* RoomTerm without the skip of the settled units
RoomTerm_all(room, ridx, i, d) ==
    ((d - (i - 1))
     + Abs(ROOM_POS[ridx] - ROOM_POS[TYPE_TO_ROOM[room[i]]])
     + 1) * COSTS[room[i]]

\* RoomTerm with the steps out of the room counted twice
RoomTerm_twice(room, ridx, i, d) ==
    IF room[i] = TARGET[ridx] /\ \A j \in 1..(i - 1) : room[j] = TARGET[ridx]
    THEN 0
    ELSE (2 * (d - (i - 1))
          + Abs(ROOM_POS[ridx] - ROOM_POS[TYPE_TO_ROOM[room[i]]])
          + 1) * COSTS[room[i]]

\* i is the 1-based index in the stack: idx_from_bottom = i - 1
RoomTerm(room, ridx, i, d) ==
    IF room[i] = TARGET[ridx] /\ \A j \in 1..(i - 1) : room[j] = TARGET[ridx]
    THEN 0
    ELSE ((d - (i - 1))
          + Abs(ROOM_POS[ridx] - ROOM_POS[TYPE_TO_ROOM[room[i]]])
          + 1) * COSTS[room[i]]

heuristic(state, d) ==
    Sum(LAMBDA pos : HallTerm(state.hall, pos), 0, HALL_LEN - 1)
    + Sum(LAMBDA ridx :
            Sum(LAMBDA i : RoomTerm(state.rooms[ridx], ridx, i, d),
                1, Len(state.rooms[ridx])),
          0, 3)

---------------------------------------------------------------------------
(* Move generation.  A move is <<kind, ridx, cell>>: "h2r" takes the unit  *)
(* in hallway cell `cell` into room ridx, "r2h" takes the top unit of room *)
(* ridx to hallway cell `cell`.  MoveOK says which moves neighbors         *)
(* generates from a state; neighbors is the set of their (cost, next).     *)

Cells == 0..(HALL_LEN - 1)

\* h2r_ok that lets a unit into its room whatever the room holds
h2r_ok_unready(state, hi, d) ==
    /\ state.hall[hi] # "."
    /\ Len(state.rooms[TYPE_TO_ROOM[state.hall[hi]]]) < d
    /\ hallway_path_clear(state.hall, hi, ROOM_POS[TYPE_TO_ROOM[state.hall[hi]]])

\* Priority 1, hallway -> target room: the unit in cell hi may enter
h2r_ok(state, hi, d) ==
    /\ state.hall[hi] # "."
    /\ Len(state.rooms[TYPE_TO_ROOM[state.hall[hi]]]) < d
    /\ is_room_ready(state.rooms[TYPE_TO_ROOM[state.hall[hi]]],
                     TYPE_TO_ROOM[state.hall[hi]])
    /\ hallway_path_clear(state.hall, hi, ROOM_POS[TYPE_TO_ROOM[state.hall[hi]]])

\* h2r_cost with the whole depth of the room as room_distance
h2r_cost_full(state, hi, d) ==
    (Abs(hi - ROOM_POS[TYPE_TO_ROOM[state.hall[hi]]]) + d)
    * COSTS[state.hall[hi]]

\* h2r_cost with one step into the room, however deep the free slot
h2r_cost_flat(state, hi, d) ==
    (Abs(hi - ROOM_POS[TYPE_TO_ROOM[state.hall[hi]]]) + 1)
    * COSTS[state.hall[hi]]

\* steps = abs(hi - door) + room_distance
h2r_cost(state, hi, d) ==
    (Abs(hi - ROOM_POS[TYPE_TO_ROOM[state.hall[hi]]])
     + (d - Len(state.rooms[TYPE_TO_ROOM[state.hall[hi]]])))
    * COSTS[state.hall[hi]]

\* h2r_next that leaves the unit in its hallway cell as well
h2r_next_keep(state, hi) ==
    [hall  |-> state.hall,
     rooms |-> [state.rooms EXCEPT
                  ![TYPE_TO_ROOM[state.hall[hi]]] = Append(@, state.hall[hi])]]

h2r_next(state, hi) ==
    [hall  |-> [state.hall EXCEPT ![hi] = "."],
     rooms |-> [state.rooms EXCEPT
                  ![TYPE_TO_ROOM[state.hall[hi]]] = Append(@, state.hall[hi])]]

\* made_h2r never set: the early return of line 163 is lost
made_h2r_none(state, d) == FALSE

\* r2h_ok without the skip of the complete and the ready rooms
r2h_ok_any(state, ridx, d) == state.rooms[ridx] # <<>>

\* made_h2r set as soon as a unit stands in the hallway
made_h2r_any(state, d) == \E hi \in Cells : state.hall[hi] # "."

\* made_h2r: some hallway -> room move was generated
made_h2r(state, d) == \E hi \in Cells : h2r_ok(state, hi, d)

\* Priority 2, room -> hallway: the room has a unit to move out
r2h_ok(state, ridx, d) ==
    /\ state.rooms[ridx] # <<>>
    /\ ~ ( \/ is_room_complete(state.rooms[ridx], ridx, d)
           \/ is_room_ready(state.rooms[ridx], ridx) )

\* stop_ok without the test of FORBIDDEN_STOPS
stop_ok_doors(hall, door, k) ==
    \/ /\ k < door
       /\ \A j \in k..(door - 1) : hall[j] = "."
    \/ /\ k > door
       /\ \A j \in (door + 1)..k : hall[j] = "."

\* the scan to the left or to the right of the door reaches cell k, and k
\* is a cell to stop at
stop_ok(hall, door, k) ==
    /\ \/ /\ k < door
          /\ \A j \in k..(door - 1) : hall[j] = "."
       \/ /\ k > door
          /\ \A j \in (door + 1)..k : hall[j] = "."
    /\ k \notin FORBIDDEN_STOPS

\* r2h_cost with exit_steps one short
r2h_cost_short(state, ridx, k, d) ==
    ((d - Len(state.rooms[ridx])) + Abs(ROOM_POS[ridx] - k))
    * COSTS[state.rooms[ridx][Len(state.rooms[ridx])]]

\* steps = exit_steps + the distance from the door to k
r2h_cost(state, ridx, k, d) ==
    ((d - Len(state.rooms[ridx]) + 1) + Abs(ROOM_POS[ridx] - k))
    * COSTS[state.rooms[ridx][Len(state.rooms[ridx])]]

\* r2h_next that puts room[0], the bottom unit, into the hallway
r2h_next_bottom(state, ridx, k) ==
    [hall  |-> [state.hall EXCEPT ![k] = state.rooms[ridx][1]],
     rooms |-> [state.rooms EXCEPT ![ridx] = SubSeq(@, 1, Len(@) - 1)]]

r2h_next(state, ridx, k) ==
    [hall  |-> [state.hall EXCEPT
                  ![k] = state.rooms[ridx][Len(state.rooms[ridx])]],
     rooms |-> [state.rooms EXCEPT ![ridx] = SubSeq(@, 1, Len(@) - 1)]]

MoveIds == {"h2r", "r2h"} \X (0..3) \X Cells

H2ROK(state, m, d) ==
    /\ m[1] = "h2r"
    /\ state.hall[m[3]] # "."
    /\ m[2] = TYPE_TO_ROOM[state.hall[m[3]]]
    /\ h2r_ok(state, m[3], d)

R2HOK(state, m, d) ==
    /\ m[1] = "r2h"
    /\ r2h_ok(state, m[2], d)
    /\ stop_ok(state.hall, ROOM_POS[m[2]], m[3])

\* the moves neighbors generates: the room -> hallway moves only when no
\* hallway -> room move was made
MoveOK(state, m, d) ==
    \/ H2ROK(state, m, d)
    \/ /\ R2HOK(state, m, d)
       /\ ~ made_h2r(state, d)

\* the moves of the generator without lines 160-163: both classes, always
AnyMoveOK(state, m, d) == H2ROK(state, m, d) \/ R2HOK(state, m, d)

MoveCost(state, m, d) ==
    IF m[1] = "h2r" THEN h2r_cost(state, m[3], d)
    ELSE r2h_cost(state, m[2], m[3], d)

MoveNext(state, m) ==
    IF m[1] = "h2r" THEN h2r_next(state, m[3])
    ELSE r2h_next(state, m[2], m[3])

Moves(state, d) == { m \in MoveIds : MoveOK(state, m, d) }

neighbors(state, d) ==
    { <<MoveCost(state, m, d), MoveNext(state, m)>> : m \in Moves(state, d) }

---------------------------------------------------------------------------
(* Parsing: the state parse builds from the room rows of the diagram (top  *)
(* row first) and the hallway cells; the scanning of the text lines is not *)
(* modelled.                                                               *)

\* depth = len(room_lines), clamped to 2 or 4
ParseDepth(rows) ==
    IF Len(rows) \in {2, 4} THEN Len(rows)
    ELSE IF Len(rows) <= 2 THEN 2 ELSE 4

\* the stacks, pushed bottom row first, the empty cells skipped
ParseRooms(rows) ==
    [ridx \in 0..3 |->
        SelectSeq([i \in 1..Len(rows) |-> rows[Len(rows) + 1 - i][ridx + 1]],
                  LAMBDA c : c \in Species)]

EmptyHall == [i \in 0..(HALL_LEN - 1) |-> "."]

StateOf(b) == [hall |-> b.hall, rooms |-> b.rooms]

Board(hallway, rows) ==
    [hall  |-> hallway,
     rooms |-> ParseRooms(SubSeq(rows, 1, ParseDepth(rows))),
     depth |-> ParseDepth(rows)]

---------------------------------------------------------------------------
(* A* search: the frontier is kept as a sequence sorted by Python's order  *)
(* of the tuples (f, g, state), so that heappop is Head.                   *)

Ord(c) == CASE c = "." -> 46 [] c = "A" -> 65 [] c = "B" -> 66
            [] c = "C" -> 67 [] c = "D" -> 68

\* the state as the sequence Python compares: the hallway, then each room,
\* a shorter room that is a prefix of a longer one being the smaller
StateKey(s, d) ==
    [i \in 1..(HALL_LEN + 4 * d) |->
        IF i <= HALL_LEN THEN Ord(s.hall[i - 1])
        ELSE LET r == (i - HALL_LEN - 1) \div d
                 j == ((i - HALL_LEN - 1) % d) + 1
             IN  IF j <= Len(s.rooms[r]) THEN Ord(s.rooms[r][j]) ELSE 0]

SeqLess(x, y) ==
    \E i \in 1..Len(x) :
        /\ x[i] < y[i]
        /\ \A j \in 1..(i - 1) : x[j] = y[j]

EntryLess(a, b, d) ==
    \/ a[1] < b[1]
    \/ /\ a[1] = b[1]
       /\ \/ a[2] < b[2]
          \/ /\ a[2] = b[2]
             /\ SeqLess(StateKey(a[3], d), StateKey(b[3], d))

\* the number of entries of the sorted sequence q[lo..hi] that precede e
RECURSIVE Rank(_, _, _, _, _)
Rank(q, e, lo, hi, d) ==
    IF lo > hi THEN lo - 1
    ELSE LET mid == (lo + hi) \div 2
         IN  IF EntryLess(q[mid], e, d)
             THEN Rank(q, e, mid + 1, hi, d)
             ELSE Rank(q, e, lo, mid - 1, d)

heappush(q, e, d) ==
    LET k == Rank(q, e, 1, Len(q), d)
    IN  SubSeq(q, 1, k) \o <<e>> \o SubSeq(q, k + 1, Len(q))

RECURSIVE PushAll(_, _, _)
PushAll(q, es, d) ==
    IF es = {} THEN q
    ELSE LET e == CHOOSE x \in es : TRUE
         IN  PushAll(heappush(q, e, d), es \ {e}, d)

goal(d) ==
    [hall  |-> EmptyHall,
     rooms |-> [r \in 0..3 |-> [i \in 1..d |-> TARGET[r]]]]

\* the goal test, passed by any state with an empty hallway whose rooms
\* hold no foreign unit, full or not
is_goal_ready(s, d) ==
    /\ s.hall = EmptyHall
    /\ \A r \in 0..3 : is_room_ready(s.rooms[r], r)

\* s == goal
is_goal(s, d) == s = goal(d)

\* the comparison of line 245 with <= for <
Improved_orequal(g, s, best, d) ==
    { <<n[1] + g, n[2]>> : n \in
        { x \in neighbors(s, d) :
            x[2] \notin DOMAIN best \/ g + x[1] <= best[x[2]] } }

\* the table lookup without its default: an absent state is never better
Improved_nodefault(g, s, best, d) ==
    { <<n[1] + g, n[2]>> : n \in
        { x \in neighbors(s, d) :
            x[2] \in DOMAIN best /\ g + x[1] < best[x[2]] } }

\* the successors that improve on the best-cost table: (ng, nxt)
Improved(g, s, best, d) ==
    { <<n[1] + g, n[2]>> : n \in
        { x \in neighbors(s, d) :
            x[2] \notin DOMAIN best \/ g + x[1] < best[x[2]] } }

SolveInitOn(boards) ==
    \E b \in boards :
        /\ depth = b.depth
        /\ start = [hall |-> b.hall, rooms |-> b.rooms]
        /\ gbest = (start :> 0)
        /\ heap = << <<heuristic(start, depth), 0, start>> >>
        /\ result = <<>>
        /\ pc = "loop"
        /\ cur = start
        /\ acc = 0

\* an outdated entry is popped and skipped
PopStale ==
    /\ pc = "loop"
    /\ heap # <<>>
    /\ Head(heap)[2] # gbest[Head(heap)[3]]
    /\ heap' = Tail(heap)
    /\ UNCHANGED <<depth, start, gbest, result, pc, cur, acc>>

\* the goal is popped: solve returns its cost
PopGoal ==
    /\ pc = "loop"
    /\ heap # <<>>
    /\ Head(heap)[2] = gbest[Head(heap)[3]]
    /\ is_goal(Head(heap)[3], depth)
    /\ heap' = Tail(heap)
    /\ result' = <<Head(heap)[2]>>
    /\ pc' = "done"
    /\ UNCHANGED <<depth, start, gbest, cur, acc>>

\* best_g after the improved neighbours imp are recorded
Recorded(best, imp) ==
    [x \in {n[2] : n \in imp} |-> (CHOOSE n \in imp : n[2] = x)[1]] @@ best

\* the heap after the improved neighbours imp are pushed
Pushed(q, imp, d) ==
    PushAll(q, { <<n[1] + heuristic(n[2], d), n[1], n[2]>> : n \in imp }, d)

\* a state is popped and expanded
PopExpand ==
    /\ pc = "loop"
    /\ heap # <<>>
    /\ Head(heap)[2] = gbest[Head(heap)[3]]
    /\ ~ is_goal(Head(heap)[3], depth)
    /\ LET imp == Improved(Head(heap)[2], Head(heap)[3], gbest, depth)
       IN  /\ gbest' = Recorded(gbest, imp)
           /\ heap' = Pushed(Tail(heap), imp, depth)
    /\ UNCHANGED <<depth, start, result, pc, cur, acc>>

\* the frontier is exhausted: solve returns -1
ReturnFail ==
    /\ pc = "loop"
    /\ heap = <<>>
    /\ result' = <<-1>>
    /\ pc' = "done"
    /\ UNCHANGED <<depth, start, gbest, heap, cur, acc>>

SolveNext == PopStale \/ PopGoal \/ PopExpand \/ ReturnFail

\* the iterations of the loop that one step of Solve runs at most
MaxPops == 4096

\* one iteration of the loop of solve on the heap and table of c, whose
\* result is <<>> until solve returns
Iterate(c, d) ==
    IF c.heap = <<>> THEN [c EXCEPT !.result = <<-1>>]
    ELSE IF Head(c.heap)[2] # c.gbest[Head(c.heap)[3]]
         THEN [c EXCEPT !.heap = Tail(c.heap)]
    ELSE IF is_goal(Head(c.heap)[3], d)
         THEN [c EXCEPT !.heap = Tail(c.heap), !.result = <<Head(c.heap)[2]>>]
    ELSE LET imp == Improved(Head(c.heap)[2], Head(c.heap)[3], c.gbest, d)
         IN  [c EXCEPT !.heap = Pushed(Tail(c.heap), imp, d),
                       !.gbest = Recorded(c.gbest, imp)]

\* the loop of solve from c, until it returns or has made n iterations
RECURSIVE Loop(_, _, _)
Loop(c, d, n) ==
    IF c.result # <<>> THEN c
    ELSE IF n = 1 THEN Iterate(c, d)
    ELSE Loop(Loop(c, d, n \div 2), d, n - (n \div 2))

\* a run of the loop of solve: to its return, or MaxPops iterations
Solve ==
    /\ pc = "loop"
    /\ LET r == Loop([heap |-> heap, gbest |-> gbest, result |-> result],
                     depth, MaxPops)
       IN  /\ result' = r.result
           /\ heap' = r.heap
           /\ gbest' = r.gbest
           /\ pc' = IF r.result = <<>> THEN "loop" ELSE "done"
    /\ UNCHANGED <<depth, start, cur, acc>>

---------------------------------------------------------------------------
(* The initial states of the search *)

\* the units of species sp in the hallway and the rooms of s
Count(s, sp) ==
    Cardinality({i \in 0..(HALL_LEN - 1) : s.hall[i] = sp})
    + Sum(LAMBDA r : Cardinality({i \in 1..Len(s.rooms[r]) : s.rooms[r][i] = sp}),
          0, 3)

\* a well-formed input: d units of each species, no room above its
\* capacity, no unit on a doorway
Valid(s, d) ==
    /\ \A sp \in Species : Count(s, sp) = d
    /\ \A r \in 0..3 : Len(s.rooms[r]) <= d
    /\ \A k \in FORBIDDEN_STOPS : s.hall[k] = "."

Test1Rows == << <<"B", "C", "B", "D">>, <<"A", "D", "C", "A">> >>

Test1Board == Board(EmptyHall, Test1Rows)

Test2Rows ==
    << <<"B", "C", "B", "D">>, <<"D", "C", "B", "A">>,
       <<"D", "B", "A", "C">>, <<"A", "D", "C", "A">> >>

Test2Board == Board(EmptyHall, Test2Rows)

\* the depth-4 board as the specification describes it
DocRows ==
    << <<"B", "C", "B", "D">>, <<"D", "D", "D", "A">>,
       <<"C", "B", "A", "C">>, <<"A", "D", "C", "A">> >>

DocBoard == Board(EmptyHall, DocRows)

\* The bounded family of depth-2 boards: the rooms of C and D are complete,
\* the units of A and B (at most two of each) lie anywhere in the rooms of
\* A and B and in the hallway cells that are not doorways, at most MaxHall
\* of them in the hallway.  Boards with fewer than two A or B are the
\* malformed inputs.
MaxHall == 2

Active == {"A", "B"}

StopCells == (0..(HALL_LEN - 1)) \ FORBIDDEN_STOPS

FamilyHalls ==
    { [i \in 0..(HALL_LEN - 1) |-> IF i \in StopCells THEN f[i] ELSE "."] :
        f \in { g \in [StopCells -> Active \cup {"."}] :
                  Cardinality({i \in StopCells : g[i] # "."}) <= MaxHall } }

FamilyRows ==
    { << <<t0, t1, "C", "D">>, <<b0, b1, "C", "D">> >> :
        t0 \in Active \cup {"."}, t1 \in Active \cup {"."},
        b0 \in Active \cup {"."}, b1 \in Active \cup {"."} }

Boards ==
    { b \in { Board(h, rows) : h \in FamilyHalls, rows \in FamilyRows } :
        \A sp \in Species : Count(b, sp) <= b.depth }

\* a valid board on which two hallway units block each other for ever
BlockedBoard ==
    Board([EmptyHall EXCEPT ![3] = "D", ![5] = "A"],
          << <<".", "B", "C", ".">>, <<"A", "B", "C", "D">> >>)

TestBoards == {Test1Board, BlockedBoard}

Init == SolveInitOn(Boards)

Next == SolveNext

Spec == Init /\ [][Next]_vars

\* whole calls of solve, on the first self-test as well
RunInit == SolveInitOn(Boards \cup TestBoards)

RunSpec == RunInit /\ [][Solve]_vars

\* The boards whose cost is known by hand, of depth 2 and 4: all units at
\* home, and all at home but one, which stands in the hallway
HandDepths == {2, 4}

HomeRows(d) == [i \in 1..d |-> [c \in 1..4 |-> TARGET[c - 1]]]

GoalBoard(d) == Board(EmptyHall, HomeRows(d))

SingleBoard(sp, p, d) ==
    Board([EmptyHall EXCEPT ![p] = sp],
          [HomeRows(d) EXCEPT ![1][TYPE_TO_ROOM[sp] + 1] = "."])

HandBoards ==
    { GoalBoard(d) : d \in HandDepths }
    \cup { SingleBoard(sp, p, d) : sp \in Species, p \in StopCells,
                                  d \in HandDepths }

HandInit == SolveInitOn(HandBoards)

HandSpec == HandInit /\ [][Solve]_vars

---------------------------------------------------------------------------
(* The move graph: a walk along generated moves from the initial state,    *)
(* with the total cost of the moves made                                   *)

WalkBoards == {Test1Board} \cup Boards

WalkInitOn(boards) ==
    \E b \in boards :
        /\ depth = b.depth
        /\ start = [hall |-> b.hall, rooms |-> b.rooms]
        /\ gbest = <<>>
        /\ heap = <<>>
        /\ result = <<>>
        /\ pc = "walk"
        /\ cur = start
        /\ acc = 0

\* one move of those neighbors(cur, depth) generates
Move ==
    /\ pc = "walk"
    /\ \E m \in Moves(cur, depth) :
        /\ cur' = MoveNext(cur, m)
        /\ acc' = acc + MoveCost(cur, m, depth)
    /\ UNCHANGED <<depth, start, gbest, heap, result, pc>>

WalkInit == WalkInitOn(WalkBoards)

WalkSpec == WalkInit /\ [][Move]_vars

\* the walks from the depth-4 board of the self-test
Test2Init == WalkInitOn({Test2Board})

Test2Spec == Test2Init /\ [][Move]_vars

\* the walks from the depth-4 board as the document describes it
DocInit == WalkInitOn({DocBoard})

DocSpec == DocInit /\ [][Move]_vars

---------------------------------------------------------------------------
(* The total costs of the move sequences, computed from the move relation  *)
(* alone: OK is MoveOK, or AnyMoveOK for the unpruned generator.           *)

\* the (state, total cost) pairs one more move leads to from the pairs ps
StepPairs(OK(_, _, _), ps, d) ==
    { <<MoveNext(x[1][1], x[2]), x[1][2] + MoveCost(x[1][1], x[2], d)>> :
        x \in { y \in ps \X MoveIds : OK(y[1][1], y[2], d) } }

\* the total costs of the sequences of moves that continue ps to the goal
RECURSIVE GoalCostsFrom(_, _, _)
GoalCostsFrom(OK(_, _, _), ps, d) ==
    IF ps = {} THEN {}
    ELSE { p[2] : p \in { q \in ps : q[1] = goal(d) } }
         \cup GoalCostsFrom(OK, StepPairs(OK, ps, d), d)

GoalCosts(OK(_, _, _), s, d) == GoalCostsFrom(OK, { <<s, 0>> }, d)

\* <<the least cost>>, or <<>> when no sequence of moves reaches the goal
LeastOf(S) ==
    IF S = {} THEN <<>> ELSE << CHOOSE x \in S : \A y \in S : x <= y >>

Optimal(OK(_, _, _), s, d) == LeastOf(GoalCosts(OK, s, d))

\* the states some sequence of generated moves leads to from the states ss
RECURSIVE ReachFrom(_, _)
ReachFrom(ss, d) ==
    IF ss = {} THEN {}
    ELSE ss \cup ReachFrom({ MoveNext(x[1], x[2]) :
                               x \in { y \in ss \X MoveIds :
                                         MoveOK(y[1], y[2], d) } }, d)

Reach(s, d) == ReachFrom({s}, d)

---------------------------------------------------------------------------
(* Claims *)

\* C1 (optimality): when solve returns a cost, that cost is the total cost
\* of some sequence of generated moves from the initial state to the goal,
\* and no such sequence has a smaller total cost.
C1_Optimal ==
    (pc = "done" /\ result # <<-1>>)
        => result = Optimal(MoveOK, start, depth)

\* a search that returned a positive cost where move sequences of several
\* different total costs reach the goal
C1_Witness ==
    /\ pc = "done"
    /\ result # <<-1>>
    /\ result[1] > 0
    /\ Cardinality(GoalCosts(MoveOK, start, depth)) > 1

\* C2: on the depth-2 example board solve returns exactly 12521, the least
\* total cost of the sequences of generated moves that reach the goal.
C2_Test1 ==
    (pc = "done" /\ start = StateOf(Test1Board))
        => /\ result = <<12521>>
           /\ Optimal(MoveOK, start, depth) = <<12521>>

\* the search on the example board has returned
C2_Witness ==
    /\ pc = "done"
    /\ start = StateOf(Test1Board)
    /\ depth = 2
    /\ result = <<12521>>

C4_DocOptimal ==
    (start = StateOf(DocBoard) /\ cur = start)
        => Optimal(MoveOK, start, depth) = <<44169>>

\* C4 amended: the board the specification describes holds three B and five D, and no
\* sequence of generated moves from it reaches the goal.
C4_DocUnsolvable ==
    start = StateOf(DocBoard)
        => /\ cur # goal(depth)
           /\ Count(cur, "B") = 3
           /\ Count(cur, "D") = 5

\* a walk from the described board that has come to its end
C4_Witness ==
    /\ start = StateOf(DocBoard)
    /\ acc > 0
    /\ Moves(cur, depth) = {}

C6_Pruning ==
    pc = "done"
        => Optimal(MoveOK, start, depth) = Optimal(AnyMoveOK, start, depth)

\* a solved board whose initial state has a hallway -> room move, so that
\* its room -> hallway moves are suppressed
C6_Witness ==
    /\ pc = "done"
    /\ result # <<-1>>
    /\ made_h2r(start, depth)
    /\ \E m \in MoveIds : R2HOK(start, m, depth)

\* C7 (admissibility): in every state reachable from a valid initial state
\* the heuristic is non-negative and, when the goal is reachable from the
\* state, at most the least total cost of reaching it.
C7_Admissible ==
    (pc = "done" /\ Valid(start, depth))
        => \A s \in Reach(start, depth) :
              /\ heuristic(s, depth) >= 0
              /\ Optimal(MoveOK, s, depth) # <<>>
                    => heuristic(s, depth) <= Optimal(MoveOK, s, depth)[1]

\* a valid board with a reachable state, not the goal, where the heuristic
\* is exactly the least cost, and one where it is below it
C7_Witness ==
    /\ pc = "done"
    /\ Valid(start, depth)
    /\ \E s \in Reach(start, depth) :
          /\ heuristic(s, depth) > 0
          /\ Optimal(MoveOK, s, depth) = <<heuristic(s, depth)>>
    /\ \E s \in Reach(start, depth) :
          /\ Optimal(MoveOK, s, depth) # <<>>
          /\ heuristic(s, depth) < Optimal(MoveOK, s, depth)[1]

\* C8 (conservation): after any sequence of generated moves each species
\* has as many units, over the hallway and the rooms, as in the initial
\* state: depth of them when the initial state is valid.
C8_Conservation ==
    /\ \A sp \in Species : Count(cur, sp) = Count(start, sp)
    /\ Valid(start, depth) => \A sp \in Species : Count(cur, sp) = depth

\* a walk from a valid board that is not the goal has reached the goal:
\* units have left rooms and entered rooms
C8_Witness ==
    /\ Valid(start, depth)
    /\ start # goal(depth)
    /\ cur = goal(depth)
    /\ acc > 0

\* the hallway cells strictly after i up to j, or from j up to before i
Between(i, j) ==
    IF j > i THEN (i + 1)..j ELSE j..(i - 1)

\* the step moved the top unit of room r to the empty hallway cell k, not
\* a doorway, over empty cells from the doorway of r on
LegalR2H(r, k) ==
    /\ cur.rooms[r] # <<>>
    /\ cur.hall[k] = "."
    /\ k \notin {2, 4, 6, 8}
    /\ cur.hall[ROOM_POS[r]] = "."
    /\ \A j \in Between(ROOM_POS[r], k) : cur.hall[j] = "."
    /\ cur'.hall = [cur.hall EXCEPT ![k] = cur.rooms[r][Len(cur.rooms[r])]]
    /\ cur'.rooms = [cur.rooms EXCEPT ![r] = SubSeq(@, 1, Len(@) - 1)]

\* the step moved the unit in hallway cell k into its own room, which held
\* fewer than depth units, all of its species, over empty cells up to the
\* doorway
LegalH2R(k) ==
    /\ cur.hall[k] # "."
    /\ LET r == TYPE_TO_ROOM[cur.hall[k]]
       IN  /\ TARGET[r] = cur.hall[k]
           /\ Len(cur.rooms[r]) < depth
           /\ \A i \in 1..Len(cur.rooms[r]) : cur.rooms[r][i] = cur.hall[k]
           /\ \A j \in Between(k, ROOM_POS[r]) : cur.hall[j] = "."
           /\ cur'.hall = [cur.hall EXCEPT ![k] = "."]
           /\ cur'.rooms = [cur.rooms EXCEPT ![r] = Append(@, cur.hall[k])]

LegalStep ==
    \/ \E r \in 0..3, k \in 0..(HALL_LEN - 1) : LegalR2H(r, k)
    \/ \E k \in 0..(HALL_LEN - 1) : LegalH2R(k)

\* C9 (move legality): every generated move is a room -> hallway move onto
\* an empty cell that is not a doorway along an empty path, or a hallway ->
\* room move into the unit's own room, not full and holding only its
\* species, along an empty path.
C9_Legal == [][LegalStep]_vars

\* a walk in which a unit has left the hallway and another has entered it
C9_Witness ==
    /\ acc > 0
    /\ \E k \in 0..(HALL_LEN - 1) : start.hall[k] # "." /\ cur.hall[k] = "."
    /\ \E k \in 0..(HALL_LEN - 1) : start.hall[k] = "." /\ cur.hall[k] # "."

\* C10 (failure signal): solve returns -1 only with the frontier exhausted,
\* the frontier is exhausted only when no sequence of generated moves
\* reaches the goal, solve returns -1 exactly when the goal is unreachable,
\* and every other value returned is a non-negative integer.
C10_Sentinel ==
    /\ (pc = "loop" /\ heap = <<>>) => goal(depth) \notin Reach(start, depth)
    /\ pc = "done"
         => /\ result = <<-1>> <=> goal(depth) \notin Reach(start, depth)
            /\ result = <<-1>> => heap = <<>>
            /\ result # <<-1>> => result[1] >= 0

\* solve has returned -1 on a board whose unit counts differ from depth
C10_Witness ==
    /\ pc = "done"
    /\ result = <<-1>>
    /\ heap = <<>>
    /\ \E sp \in Species : Count(start, sp) # depth

\* exactly one unit, of species sp, stands in the hallway, on cell p, and
\* every other unit is in its own room
SingleMisplaced(s, d, sp, p) ==
    /\ s.hall = [EmptyHall EXCEPT ![p] = sp]
    /\ \A r \in 0..3 :
          s.rooms[r] = [i \in 1..(IF TARGET[r] = sp THEN d - 1 ELSE d)
                          |-> TARGET[r]]

\* C11 (single misplaced unit): with one unit of species sp on the hallway
\* cell p, not a doorway, and every other unit at home, solve returns
\* (|p - door(sp)| + 1) * cost(sp).
C11_Single ==
    \A sp \in Species, p \in (0..(HALL_LEN - 1)) \ {2, 4, 6, 8} :
        (pc = "done" /\ SingleMisplaced(start, depth, sp, p))
            => result = << (Abs(p - ROOM_POS[TYPE_TO_ROOM[sp]]) + 1)
                           * COSTS[sp] >>

\* solve has returned on a depth-4 board with one D left at the far end of
\* the hallway
C11_Witness ==
    /\ pc = "done"
    /\ depth = 4
    /\ SingleMisplaced(start, depth, "D", 0)
    /\ result = <<9000>>

\* C12 (goal board): on a board already in the goal configuration the
\* heuristic is 0, the frontier starts as the one entry (0, 0, goal), and
\* solve returns 0 with nothing but the goal in its table and nothing
\* pushed: no state was expanded.
C12_Goal ==
    start = goal(depth)
        => /\ heuristic(start, depth) = 0
           /\ pc = "loop" => heap = << <<0, 0, goal(depth)>> >>
           /\ pc = "done" => /\ result = <<0>>
                             /\ DOMAIN gbest = {goal(depth)}
                             /\ gbest[goal(depth)] = 0
                             /\ heap = <<>>

\* solve has returned on the depth-4 goal board
C12_Witness ==
    /\ pc = "done"
    /\ depth = 4
    /\ start = goal(4)
    /\ result = <<0>>

\* the units in the hallway of s
HallUnits(s) == Cardinality({k \in 0..(HALL_LEN - 1) : s.hall[k] # "."})

\* the unit on hallway cell k may enter its own room: the room is not full,
\* holds only its species, and the cells up to the doorway are empty
CanEnter(s, k, d) ==
    /\ s.hall[k] # "."
    /\ \E r \in 0..3 :
          /\ TARGET[r] = s.hall[k]
          /\ Len(s.rooms[r]) < d
          /\ \A i \in 1..Len(s.rooms[r]) : s.rooms[r][i] = s.hall[k]
          /\ \A j \in Between(k, ROOM_POS[r]) : s.hall[j] = "."

\* C13 (pruning rule): when some hallway unit may enter its room, neighbors
\* returns one move for each such unit, each taking a unit out of the
\* hallway, and no move that puts a unit into the hallway; a move into the
\* hallway is returned only when no hallway unit may enter its room.
C13_PruningRule ==
    LET ns    == neighbors(cur, depth)
        enter == {k \in 0..(HALL_LEN - 1) : CanEnter(cur, k, depth)}
    IN  /\ enter # {}
             => /\ \A n \in ns : HallUnits(n[2]) = HallUnits(cur) - 1
                /\ {n[2].hall : n \in ns}
                     = {[cur.hall EXCEPT ![k] = "."] : k \in enter}
                /\ Cardinality(ns) = Cardinality(enter)
        /\ (\E n \in ns : HallUnits(n[2]) > HallUnits(cur)) => enter = {}

\* a state reached by moves where a hallway unit may enter its room while a
\* room with a foreign unit has a free cell next to its doorway
C13_Witness ==
    /\ acc > 0
    /\ \E k \in 0..(HALL_LEN - 1) : CanEnter(cur, k, depth)
    /\ \E r \in 0..3 :
          /\ \E i \in 1..Len(cur.rooms[r]) : cur.rooms[r][i] # TARGET[r]
          /\ cur.hall[ROOM_POS[r] - 1] = "."
    /\ \A n \in neighbors(cur, depth) : HallUnits(n[2]) < HallUnits(cur)

\* C14 (commutation behind the pruning): in every reachable state, after
\* any legal hallway -> room move every room -> hallway move that satisfied
\* the rule of its class before still satisfies it, at the same cost.
C14_Commute ==
    \A hi \in Cells :
        h2r_ok(cur, hi, depth)
            => \A m \in MoveIds :
                  R2HOK(cur, m, depth)
                      => /\ R2HOK(h2r_next(cur, hi), m, depth)
                         /\ r2h_cost(h2r_next(cur, hi), m[2], m[3], depth)
                              = r2h_cost(cur, m[2], m[3], depth)

\* a state reached by moves with a legal hallway -> room move and a room ->
\* hallway move that satisfies its rule
C14_Witness ==
    /\ acc > 0
    /\ \E hi \in Cells : h2r_ok(cur, hi, depth)
    /\ \E m \in MoveIds : R2HOK(cur, m, depth)

\* C15 (doorways): from an initial state with the hallway cells 2, 4, 6 and
\* 8 empty, these cells are empty in every state generated moves lead to.
C15_Doorways ==
    (\A k \in {2, 4, 6, 8} : start.hall[k] = ".")
        => \A k \in {2, 4, 6, 8} : cur.hall[k] = "."

\* units have moved out of rooms 0 and 1 and passed over doorways: one
\* stands between the doorways of rooms 0 and 1, one beyond that of room 3
C15_Witness ==
    /\ start.hall = EmptyHall
    /\ cur.hall[3] # "."
    /\ cur.hall[9] # "."
    /\ \A k \in {2, 4, 6, 8} : cur.hall[k] = "."

\* every frontier entry (f, g, s) has s in the table with g >= gbest[s]
\* and f = g + heuristic(s)
HeapInv ==
    \A i \in 1..Len(heap) :
        /\ heap[i][3] \in DOMAIN gbest
        /\ heap[i][2] >= gbest[heap[i][3]]
        /\ heap[i][1] = heap[i][2] + heuristic(heap[i][3], depth)

\* the neighbours of the popped state whose candidate cost is strictly
\* below the table's entry, or that the table does not hold
Better ==
    { n \in neighbors(Head(heap)[3], depth) :
        \/ n[2] \notin DOMAIN gbest
        \/ Head(heap)[2] + n[1] < gbest[n[2]] }

\* one iteration: no table value grows; an entry above the table's value
\* is dropped and nothing else changes; an expansion records and pushes the
\* neighbours of Better, those alone, each once
TableStep ==
    /\ \A s \in DOMAIN gbest : s \in DOMAIN gbest' /\ gbest'[s] <= gbest[s]
    /\ (heap # <<>> /\ Head(heap)[2] > gbest[Head(heap)[3]])
          => (heap' = Tail(heap) /\ gbest' = gbest /\ result' = result)
    /\ (heap # <<>> /\ Head(heap)[2] = gbest[Head(heap)[3]] /\ pc' = "loop")
          => /\ Len(heap') = Len(heap) - 1 + Cardinality(Better)
             /\ \A n \in Better :
                   /\ gbest'[n[2]] = Head(heap)[2] + n[1]
                   /\ \E i \in 1..Len(heap') :
                         heap'[i] = << Head(heap)[2] + n[1]
                                         + heuristic(n[2], depth),
                                      Head(heap)[2] + n[1], n[2] >>
             /\ \A s \in DOMAIN gbest' \ {n[2] : n \in Better} :
                   s \in DOMAIN gbest /\ gbest'[s] = gbest[s]

\* C16 (lazy deletion): every frontier entry (f, g, s) has s in the table,
\* g >= gbest[s] and f = g + heuristic(s); no table value ever grows; the
\* test g != gbest[s] so drops the entries above the table's value; and a
\* neighbour is recorded and pushed only when its candidate cost is
\* strictly below the table's entry or the table does not hold it.
C16_LazyDeletion == []HeapInv /\ [][TableStep]_vars

\* the frontier holds an outdated entry, above the table's value, behind a
\* current one
C16_Witness ==
    /\ pc = "loop"
    /\ Len(heap) > 1
    /\ Head(heap)[2] = gbest[Head(heap)[3]]
    /\ \E i \in 2..Len(heap) : heap[i][2] > gbest[heap[i][3]]

\* the hallway cells and the rooms the step changes
ChangedCells == {k \in 0..(HALL_LEN - 1) : cur'.hall[k] # cur.hall[k]}

ChangedRooms == {r \in 0..3 : cur'.rooms[r] # cur.rooms[r]}

\* one hallway cell and one room change: the room's top unit is popped
\* into the cell, empty before, or the cell is emptied and its unit pushed
\* on top of its own room; the units left in the room keep their order
FrameStep ==
    /\ Cardinality(ChangedCells) = 1
    /\ Cardinality(ChangedRooms) = 1
    /\ \A k \in ChangedCells, r \in ChangedRooms :
          \/ /\ cur.hall[k] = "."
             /\ cur.rooms[r] = Append(cur'.rooms[r], cur'.hall[k])
          \/ /\ cur'.hall[k] = "."
             /\ cur'.rooms[r] = Append(cur.rooms[r], cur.hall[k])
             /\ TARGET[r] = cur.hall[k]
    /\ DOMAIN cur'.hall = DOMAIN cur.hall
    /\ DOMAIN cur'.rooms = DOMAIN cur.rooms

\* C17 (frame of a move): every generated move changes exactly one hallway
\* cell and exactly one room stack, by popping the room's top unit into an
\* empty hallway cell or by emptying a hallway cell and pushing its unit on
\* top of its target room; every other cell, every other room and the
\* order of the units left in the changed room stay as they were.
C17_Frame == [][FrameStep]_vars

\* both kinds of move have been made: a unit stands where the hallway was
\* empty, and a room holds more units than at the start
C17_Witness ==
    /\ \E k \in 0..(HALL_LEN - 1) : start.hall[k] = "." /\ cur.hall[k] # "."
    /\ \E r \in 0..3 : Len(cur.rooms[r]) > Len(start.rooms[r])

\* the unit at index i of room r of s is settled: it is of the room's
\* species and so is every unit below it
Settled(s, r, i) == \A j \in 1..i : s.rooms[r][j] = TARGET[r]

\* the settled units stay at their index, and a room that holds only its
\* species loses no unit and still holds only its species
SettledStep ==
    \A r \in 0..3 :
        /\ \A i \in 1..Len(cur.rooms[r]) :
              Settled(cur, r, i)
                  => /\ Len(cur'.rooms[r]) >= i
                     /\ Settled(cur', r, i)
        /\ is_room_ready(cur.rooms[r], r)
              => /\ is_room_ready(cur'.rooms[r], r)
                 /\ Len(cur'.rooms[r]) >= Len(cur.rooms[r])

\* C18 (settled units never move): a unit in its target room with only
\* units of its species below it is at the same room and index after every
\* generated move, and a room that holds only its target species holds
\* only its target species after every move and never has a unit taken out.
C18_Settled == [][SettledStep]_vars

\* a room that started with a settled unit under a foreign one has had the
\* foreign unit taken out and has been filled with its own species
C18_Witness ==
    \E r \in 0..3 :
        /\ Len(start.rooms[r]) = depth
        /\ Settled(start, r, 1)
        /\ start.rooms[r][depth] # TARGET[r]
        /\ is_room_complete(cur.rooms[r], r, depth)

\* heuristic(s) <= cost + heuristic(s') for every move generated from s
ConsistentAt(s, d) ==
    \A n \in neighbors(s, d) : heuristic(s, d) <= n[1] + heuristic(n[2], d)

\* s has been expanded: it is in the table and the frontier holds no
\* current entry for it
Closed(s) ==
    /\ s \in DOMAIN gbest
    /\ \A i \in 1..Len(heap) : heap[i][3] = s => heap[i][2] # gbest[s]

\* after a pop no entry of the frontier has a priority below the popped
\* one, and an expanded state stays expanded
MonotoneStep ==
    /\ heap # <<>>
          => \A i \in 1..Len(heap') : heap'[i][1] >= Head(heap)[1]
    /\ \A s \in DOMAIN gbest : Closed(s) => Closed(s)'

\* C19 (consistency): heuristic(s) <= cost + heuristic(s') for every move
\* generated from every state reachable from the initial state; the
\* priorities popped by solve never decrease; and no state is expanded
\* more than once (an expanded state never gets a current entry again).
C19_Consistent ==
    /\ [](pc = "done" => \A s \in Reach(start, depth) : ConsistentAt(s, depth))
    /\ [][MonotoneStep]_vars

\* a search that expanded states and returned a cost, with a move along
\* which the heuristic drops by exactly the move's cost and one along
\* which it drops by less
C19_Witness ==
    /\ pc = "done"
    /\ result # <<-1>>
    /\ \E s \in DOMAIN gbest : Closed(s) /\ s # start
    /\ \E s \in DOMAIN gbest : \E n \in neighbors(s, depth) :
          heuristic(s, depth) = n[1] + heuristic(n[2], depth)
    /\ \E s \in DOMAIN gbest : \E n \in neighbors(s, depth) :
          heuristic(s, depth) < n[1] + heuristic(n[2], depth)

\* the units of s
Units(s) == HallUnits(s) + Sum(LAMBDA r : Len(s.rooms[r]), 0, 3)

\* the moves the units of s have left: one for a unit in the hallway, two
\* for a unit in a room that is not settled, none for a settled unit
MovesLeft(s) ==
    HallUnits(s)
    + 2 * Sum(LAMBDA r : Cardinality({i \in 1..Len(s.rooms[r]) :
                                         ~ Settled(s, r, i)}), 0, 3)

\* an iteration returns, or shortens the frontier with the table as it
\* was, or lowers the table: new states, smaller values, none lost or grown
ProgressStep ==
    pc = "loop"
        => \/ pc' = "done"
           \/ gbest' = gbest /\ Len(heap') < Len(heap)
           \/ /\ gbest' # gbest
              /\ \A s \in DOMAIN gbest :
                    s \in DOMAIN gbest' /\ gbest'[s] <= gbest[s]

\* C20 (termination): every generated move uses up exactly one of the at
\* most two moves each unit has (room to hallway, hallway to its room), so
\* a sequence of moves from a state with N units has at most 2 * N moves
\* and the move graph has no cycle; and the loop of solve terminates on
\* every input, the goal reachable or not: each iteration returns, or
\* shortens the frontier, or lowers a table of non-negative costs over the
\* finitely many reachable states.
C20_Terminates ==
    /\ [][ProgressStep]_vars
    /\ [](\A s \in DOMAIN gbest : gbest[s] >= 0)
    /\ [](pc = "done"
            => /\ DOMAIN gbest \subseteq Reach(start, depth)
               /\ \A s \in Reach(start, depth) :
                     /\ MovesLeft(s) >= 0
                     /\ MovesLeft(s) <= 2 * Units(s)
                     /\ \A n \in neighbors(s, depth) :
                           MovesLeft(n[2]) = MovesLeft(s) - 1)

\* solve has returned -1 after a search over several states from a board
\* that had moves to make
C20_Witness ==
    /\ pc = "done"
    /\ result = <<-1>>
    /\ MovesLeft(start) >= 3
    /\ Cardinality(DOMAIN gbest) >= 3

====
